---- MODULE Spec2Model ----
(***************************************************************************)
(* Dispatch pipeline of igodwin/notifier: the NotificationService facade   *)
(* (internal/service/service.go), its worker pool, and the LocalQueue      *)
(* (package queue, found in internal/domain/notification.go).              *)
(*                                                                         *)
(* Go pointers: a *domain.Notification is shared by the Store map, by the  *)
(* queue envelopes and by the workers, so there is one record per          *)
(* notification (notifs) and everything else refers to it by id.           *)
(* Locks: lq.mu is qmu, s.mu is smu; 0 means free, otherwise the id of the *)
(* goroutine that holds it.  Writes that the code performs without a lock  *)
(* are separate steps that interleave freely.                              *)
(*                                                                         *)
(* The specifications share the variables:                                 *)
(*   Spec       the service under API traffic with its worker pool;        *)
(*   StopSpec   Spec together with NotificationService.Stop;               *)
(*   QueueSpec  the LocalQueue alone, its operations called directly by    *)
(*              client goroutines with arbitrary envelope ids;             *)
(*   FuncSpec   the operations that are functions of their arguments,      *)
(*              applied to arguments drawn from bounded sets;              *)
(*   BatchSpec  SendBatch and EnqueueBatch with the worker pool delivering *)
(*              through adapters that succeed;                             *)
(*   StatsSpec  BatchSpec together with GetStats;                          *)
(*   FullSpec   BatchSpec with batches large enough to fill the channel    *)
(*              and occupy every worker;                                   *)
(*   PurgeSpec  send, retry and the worker pool together with              *)
(*              LocalQueue.Purge.                                          *)
(* StatsLiveSpec, FullLiveSpec and StopLiveSpec add weak fairness of the   *)
(* steps of running goroutines to StatsSpec, FullSpec and StopSpec.        *)
(***************************************************************************)
EXTENDS Integers, Sequences, FiniteSets, TLC

\* ---------------------------------------------------------------- bounds
NumWorkers == 2
NumCallers == 1
MaxNotifs == 1
MaxEnv == 2
BufferSize == 1
MaxRetriesBound == 2
\* the LocalQueue driven directly (QueueSpec): client goroutines and channel capacity
NumClients == 2
QueueCap == 2
MaxAttempt == 2

Workers == 1..NumWorkers
Callers == (NumWorkers + 1)..(NumWorkers + NumCallers)
NotifIds == 1..MaxNotifs
\* an id no Send ever generates, and the ids a caller may ask about
UnknownId == MaxNotifs + 1
RequestIds == NotifIds \cup {UnknownId}
EnvIds == 1..MaxEnv
Clients == 1..NumClients
RetryValues == 0..MaxRetriesBound
\* adapter behaviour of one notification: 0 = fails on every attempt,
\* k > 0 = fails on attempts 1..k-1 and succeeds from attempt k on
OkFromValues == 0..(MaxRetriesBound + 1)

\* ------------------------------------------------------- domain constants
StatusPending == "pending"
StatusQueued == "queued"
StatusProcessing == "processing"
StatusSent == "sent"
StatusFailed == "failed"
StatusRetrying == "retrying"
StatusNone == "none"

TypeStdout == "stdout"
TypeEmail == "email"
NotificationTypes == {TypeStdout, TypeEmail}
\* getDefaultConfig enables the stdout notifier only
Registered == {TypeStdout}

ErrNone == ""
ErrCancelled == "cancelled by user"
ErrDelivery == "delivery error"
ErrCreate == "failed to create notifier"

VARIABLES
    notifs,     \* the Notification objects, by id
    store,      \* keys of s.notifications
    queue,      \* lq.queue: the buffered channel, a sequence of envelope ids
    messages,   \* keys of lq.messages
    env,        \* the QueueMessage objects, by envelope id
    qmu,        \* holder of lq.mu
    smu,        \* holder of s.mu (write side)
    closed,     \* lq.closed / lq.closeChan closed
    stopping,   \* s.stopChan closed
    wk,         \* per worker goroutine: position and locals
    call,       \* per API caller goroutine: position, locals, last result
    issued,     \* history: number of Send paths begun (send and retry calls)
    sendCalls,  \* history: number of adapter Send invocations per notification
    canceled,   \* history: notifications on which cancel returned ok since their last retry
    retried,    \* history: notifications on which a retry was ever started
    overlapped, \* history: callers whose call in progress overlapped a worker step
    stopPc,     \* position of the goroutine that runs Stop
    client,     \* per goroutine that calls the LocalQueue directly: position, locals, last result
    fcall       \* the last call of a function of its arguments only: name, arguments, result

vars == <<notifs, store, queue, messages, env, qmu, smu, closed, stopping,
          wk, call, issued, sendCalls, canceled, retried, overlapped, stopPc, client, fcall>>

\* --------------------------------------------------------------- helpers
NoNotif ==
    [status |-> StatusNone, typ |-> TypeStdout, retryCount |-> 0, maxRetries |-> 0,
     lastError |-> ErrNone, sentAt |-> FALSE, okFrom |-> 0]

NoEnv == [notif |-> 0, attempt |-> 0]

IdleWorker == [pc |-> "loop", env |-> 0, requeue |-> FALSE, ok |-> FALSE, stale |-> FALSE]

NoCall == [pc |-> "idle", op |-> "none", n |-> 0, res |-> "none", seen |-> StatusNone]

NoClient == [pc |-> "idle", op |-> "none", n |-> 0, e |-> 0, requeue |-> FALSE, res |-> "none"]

NoFcall == [fn |-> "none"]

Created == {n \in NotifIds : notifs[n].status # StatusNone}
Allocated == {e \in EnvIds : env[e].notif # 0}
FreshNotif == Cardinality(Created) + 1
FreshEnv == Cardinality(Allocated) + 1

\* every Send path allocates at most one envelope id
EnvBudget == MaxEnv - issued

EnvelopesOf(n) == {e \in EnvIds : env[e].notif = n}
\* envelopes of n that are buffered or held by a worker
LiveEnvelopesOf(n) ==
    {e \in EnvelopesOf(n) :
        \/ \E i \in 1..Len(queue) : queue[i] = e
        \/ \E w \in Workers : wk[w].env = e /\ wk[w].pc # "loop"}

\* a retry rule that allows one attempt more
RetryOnceMore(retryCount, maxRetries) == retryCount <= maxRetries
\* service.go:113  if notification.RetryCount < notification.MaxRetries
ShouldRetry(retryCount, maxRetries) == retryCount < maxRetries

\* a cancel that forgets the already-sent check
NoCancelCheck(status) == TRUE
\* service.go:229  cancel is refused only for a sent notification
CancelAllowed(status) == status # StatusSent

\* service.go:185, 224  the map read; a missing key yields the zero value
Lookup(n) == IF n \in DOMAIN notifs THEN notifs[n] ELSE NoNotif

\* a Store that has an entry for every id
ExistsAlways(n) == TRUE
\* service.go:185, 224  notification, exists := s.notifications[id]
Exists(n) == n \in store

\* service.go:246  retry is refused only for a sent notification
RetryAllowed(status) == status # StatusSent

\* factory.Create(notification.Type): an adapter exists iff the type was registered
FactoryCreate(typ) == typ \in Registered

\* the adapter of a notification on its attempt-th invocation
AdapterSucceeds(okFrom, attempt) == okFrom # 0 /\ attempt >= okFrom

\* the adapter behaviours worth telling apart for a notification: none to
\* choose when no adapter is registered for its type, and a first success at
\* attempt k only up to maxRetries + 1
AdapterPatterns(typ, maxRetries) ==
    IF FactoryCreate(typ) THEN {k \in OkFromValues : k <= maxRetries + 1} ELSE {0}

\* an Enqueue that marks the notification as already being processed
EnqueuedWrongStatus == StatusProcessing
\* notification.go:194  status written by Enqueue on admission
EnqueuedStatus == StatusQueued

\* a retry that leaves the retry counter as it finds it
KeepRetryCount(retryCount) == retryCount
\* service.go:256  notification.RetryCount = 0
ResetRetryCount(retryCount) == 0

\* a Nack that takes every envelope id for a known one
NackKnowsAll(e) == TRUE
\* notification.go:283  msg, exists := lq.messages[messageID]
NackKnown(e) == e \in messages

\* a channel that hands out the newest element first
ChanSendFront(q, e) == <<e>> \o q
\* lq.queue <- msg: a buffered Go channel is first in, first out
ChanSend(q, e) == Append(q, e)

\* wg.Wait() taken as returning at once
WaitGroupSkipped == TRUE
\* service.go:50  s.wg.Wait(): every worker goroutine has run its deferred wg.Done
WaitGroupDone == \A w \in Workers : wk[w].pc = "exited"

\* history bookkeeping.  A worker step marks every call in progress as
\* overlapped; a caller step clears the mark of a call that returns.
Overlap == overlapped' = {c \in Callers : call[c].pc # "idle"}
Settle == overlapped' = {c \in overlapped : call'[c].pc # "idle"}

\* ------------------------------------------------------------------ Init
Init ==
    /\ notifs = [n \in NotifIds |-> NoNotif]
    /\ store = {}
    /\ queue = <<>>
    /\ messages = {}
    /\ env = [e \in EnvIds |-> NoEnv]
    /\ qmu = 0
    /\ smu = 0
    /\ closed = FALSE
    /\ stopping = FALSE
    /\ wk = [w \in Workers |-> IdleWorker]
    /\ call = [c \in Callers |-> NoCall]
    /\ issued = 0
    /\ sendCalls = [n \in NotifIds |-> 0]
    /\ canceled = {}
    /\ retried = {}
    /\ overlapped = {}
    /\ stopPc = "idle"
    /\ client = [g \in Clients |-> NoClient]
    /\ fcall = NoFcall


\* ------------------------------------------------------ the worker pool
NotifOf(w) == env[wk[w].env].notif

\* worker loop, stopChan closed: the goroutine returns (service.go:60)
WorkerExit(w) ==
    /\ wk[w].pc = "loop"
    /\ stopping
    /\ wk' = [wk EXCEPT ![w].pc = "exited"]
    /\ Overlap
    /\ UNCHANGED <<stopPc, client, fcall, notifs, store, queue, messages, env, qmu, smu, closed, stopping,
                   call, issued, sendCalls, canceled, retried>>

\* Dequeue, the channel receive (notification.go:248).  It takes no lock.
\* A timeout or a closed queue leaves the worker at the head of its loop.
DequeueReceive(w) ==
    /\ wk[w].pc = "loop"
    /\ ~stopping
    /\ ~closed
    /\ queue # <<>>
    /\ queue' = Tail(queue)
    /\ wk' = [wk EXCEPT ![w] = [pc |-> "deq", env |-> Head(queue), requeue |-> FALSE,
                                ok |-> FALSE,
                                stale |-> env[Head(queue)].notif \in canceled]]
    /\ Overlap
    /\ UNCHANGED <<stopPc, client, fcall, notifs, store, messages, env, qmu, smu, closed, stopping,
                   call, issued, sendCalls, canceled, retried>>

\* Dequeue, under lq.mu: msg.Attempt++ and Status = processing (notification.go:249-252)
DequeueMark(w) ==
    /\ wk[w].pc = "deq"
    /\ qmu = 0
    /\ env' = [env EXCEPT ![wk[w].env].attempt = @ + 1]
    /\ notifs' = [notifs EXCEPT ![NotifOf(w)].status = StatusProcessing]
    /\ wk' = [wk EXCEPT ![w].pc = "got"]
    /\ Overlap
    /\ UNCHANGED <<stopPc, client, fcall, store, queue, messages, qmu, smu, closed, stopping,
                   call, issued, sendCalls, canceled, retried>>

\* a creation failure that puts the envelope back
RequeueOnCreateError == TRUE
\* service.go:98  s.queue.Nack(ctx, msg.ID, false)
NoRequeueOnCreateError == FALSE

\* processNotification up to the call of notifier.Send (service.go:91-104)
ProcessCreate(w) ==
    /\ wk[w].pc = "got"
    /\ LET n == NotifOf(w) IN
       IF FactoryCreate(notifs[n].typ)
       THEN /\ sendCalls' = [sendCalls EXCEPT ![n] = @ + 1]
            /\ wk' = [wk EXCEPT ![w].pc = "sending",
                                ![w].ok = AdapterSucceeds(notifs[n].okFrom, sendCalls[n] + 1)]
            /\ UNCHANGED notifs
       ELSE /\ notifs' = [notifs EXCEPT ![n].status = StatusFailed,
                                        ![n].lastError = ErrCreate]
            /\ wk' = [wk EXCEPT ![w].pc = "nack", ![w].requeue = NoRequeueOnCreateError]
            /\ UNCHANGED sendCalls
    /\ Overlap
    /\ UNCHANGED <<stopPc, client, fcall, store, queue, messages, env, qmu, smu, closed, stopping,
                   call, issued, canceled, retried>>

\* processNotification, notifier.Send has returned (service.go:104-110, 120-124):
\* on failure RetryCount++ and LastError, on success Status = sent and SentAt
ProcessSendReturn(w) ==
    /\ wk[w].pc = "sending"
    /\ LET n == NotifOf(w) IN
       IF wk[w].ok
       THEN /\ notifs' = [notifs EXCEPT ![n].status = StatusSent, ![n].sentAt = TRUE]
            /\ wk' = [wk EXCEPT ![w].pc = "ack"]
       ELSE /\ notifs' = [notifs EXCEPT ![n].retryCount = @ + 1,
                                        ![n].lastError = ErrDelivery]
            /\ wk' = [wk EXCEPT ![w].pc = "decide"]
    /\ Overlap
    /\ UNCHANGED <<stopPc, client, fcall, store, queue, messages, env, qmu, smu, closed, stopping,
                   call, issued, sendCalls, canceled, retried>>

\* processNotification, the retry rule (service.go:112-119): RetryCount is read
\* again and Status written, both without a lock
ProcessRetryDecision(w) ==
    /\ wk[w].pc = "decide"
    /\ LET n == NotifOf(w)
           again == ShouldRetry(notifs[n].retryCount, notifs[n].maxRetries)
       IN
       /\ notifs' = [notifs EXCEPT ![n].status = IF again THEN StatusRetrying
                                                          ELSE StatusFailed]
       /\ wk' = [wk EXCEPT ![w].pc = "nack", ![w].requeue = again]
    /\ Overlap
    /\ UNCHANGED <<stopPc, client, fcall, store, queue, messages, env, qmu, smu, closed, stopping,
                   call, issued, sendCalls, canceled, retried>>

\* LocalQueue.Nack (notification.go:279-311).  An unknown envelope id is an
\* error the worker ignores.  With requeue the send on a full channel blocks
\* while lq.mu is held.
Nack(w) ==
    /\ wk[w].pc = "nack"
    /\ qmu = 0
    /\ LET e == wk[w].env
           n == NotifOf(w)
       IN
       IF e \notin messages
       THEN /\ wk' = [wk EXCEPT ![w].pc = "update"]
            /\ UNCHANGED <<notifs, queue, messages, qmu>>
       ELSE IF wk[w].requeue
       THEN /\ notifs' = [notifs EXCEPT ![n].status = StatusRetrying]
            /\ UNCHANGED messages
            /\ IF Len(queue) < BufferSize
               THEN /\ queue' = ChanSend(queue, e)
                    /\ wk' = [wk EXCEPT ![w].pc = "update"]
                    /\ UNCHANGED qmu
               ELSE /\ qmu' = w
                    /\ wk' = [wk EXCEPT ![w].pc = "nack_blocked"]
                    /\ UNCHANGED queue
       ELSE /\ notifs' = [notifs EXCEPT ![n].status = StatusFailed]
            /\ messages' = messages \ {e}
            /\ wk' = [wk EXCEPT ![w].pc = "update"]
            /\ UNCHANGED <<queue, qmu>>
    /\ Overlap
    /\ UNCHANGED <<stopPc, client, fcall, store, env, smu, closed, stopping, call, issued, sendCalls, canceled, retried>>

\* Nack with requeue, blocked in the select: the channel has room again (notification.go:291)
NackAdmit(w) ==
    /\ wk[w].pc = "nack_blocked"
    /\ Len(queue) < BufferSize
    /\ queue' = ChanSend(queue, wk[w].env)
    /\ qmu' = 0
    /\ wk' = [wk EXCEPT ![w].pc = "update"]
    /\ Overlap
    /\ UNCHANGED <<stopPc, client, fcall, notifs, store, messages, env, smu, closed, stopping,
                   call, issued, sendCalls, canceled, retried>>

\* LocalQueue.Ack (notification.go:262-276)
Ack(w) ==
    /\ wk[w].pc = "ack"
    /\ qmu = 0
    /\ LET e == wk[w].env IN
       IF e \in messages
       THEN /\ notifs' = [notifs EXCEPT ![NotifOf(w)].status = StatusSent]
            /\ messages' = messages \ {e}
       ELSE UNCHANGED <<notifs, messages>>
    /\ wk' = [wk EXCEPT ![w].pc = "update"]
    /\ Overlap
    /\ UNCHANGED <<stopPc, client, fcall, store, queue, env, qmu, smu, closed, stopping,
                   call, issued, sendCalls, canceled, retried>>

\* updateNotification (service.go:300-304), then back to the head of the loop
UpdateNotification(w) ==
    /\ wk[w].pc = "update"
    /\ smu = 0
    /\ store' = store \cup {NotifOf(w)}
    /\ wk' = [wk EXCEPT ![w] = IdleWorker]
    /\ Overlap
    /\ UNCHANGED <<stopPc, client, fcall, notifs, queue, messages, env, qmu, smu, closed, stopping,
                   call, issued, sendCalls, canceled, retried>>


\* ------------------------------------------------------ the API callers
Return(c, res) == [call EXCEPT ![c].pc = "idle", ![c].res = res]

\* a transport handler builds a notification (rest/types.go:41-61) and calls Send
Send(c, typ, maxRetries, okFrom) ==
    /\ call[c].pc = "idle"
    /\ FreshNotif \in NotifIds
    /\ EnvBudget > 0
    /\ okFrom \in AdapterPatterns(typ, maxRetries)
    /\ notifs' = [notifs EXCEPT ![FreshNotif] =
                    [status |-> StatusPending, typ |-> typ, retryCount |-> 0,
                     maxRetries |-> maxRetries, lastError |-> ErrNone,
                     sentAt |-> FALSE, okFrom |-> okFrom]]
    /\ call' = [call EXCEPT ![c] = [pc |-> "store", op |-> "send", n |-> FreshNotif,
                                    res |-> "none", seen |-> StatusNone]]
    /\ issued' = issued + 1
    /\ Settle
    /\ UNCHANGED <<stopPc, client, fcall, store, queue, messages, env, qmu, smu, closed, stopping,
                   wk, sendCalls, canceled, retried>>

\* Send: storeNotification (service.go:133, 293-297)
StoreNotification(c) ==
    /\ call[c].pc = "store"
    /\ smu = 0
    /\ store' = store \cup {call[c].n}
    /\ call' = [call EXCEPT ![c].pc = "enq"]
    /\ Settle
    /\ UNCHANGED <<stopPc, client, fcall, notifs, queue, messages, env, qmu, smu, closed, stopping,
                   wk, issued, sendCalls, canceled, retried>>

\* a return that leaves lq.mu with the goroutine that locked it
KeepQueueLocked(holder) == holder
\* notification.go:178  defer lq.mu.Unlock(): lq.mu is free when the call returns
UnlockQueue(holder) == 0

\* the select case  lq.queue <- msg  of Enqueue (notification.go:192-199)
Admit(c) ==
    /\ env' = [env EXCEPT ![FreshEnv] = [notif |-> call[c].n, attempt |-> 0]]
    /\ queue' = ChanSend(queue, FreshEnv)
    /\ messages' = messages \cup {FreshEnv}
    /\ notifs' = [notifs EXCEPT ![call[c].n].status = EnqueuedStatus]
    /\ call' = Return(c, "ok")

\* Send: queue.Enqueue (service.go:136-150, notification.go:176-205).
\* On a full channel the caller blocks in the select holding lq.mu.
Enqueue(c) ==
    /\ call[c].pc = "enq"
    /\ qmu = 0
    /\ IF closed
       THEN /\ call' = Return(c, "queue_closed")
            /\ UNCHANGED <<notifs, queue, messages, env, qmu>>
       ELSE IF Len(queue) < BufferSize
       THEN Admit(c) /\ UNCHANGED qmu
       ELSE /\ qmu' = c
            /\ call' = [call EXCEPT ![c].pc = "enq_blocked"]
            /\ UNCHANGED <<notifs, queue, messages, env>>
    /\ Settle
    /\ UNCHANGED <<stopPc, client, fcall, store, smu, closed, stopping, wk, issued, sendCalls, canceled, retried>>

\* Enqueue blocked on a full channel: room appears (notification.go:192)
EnqueueAdmit(c) ==
    /\ call[c].pc = "enq_blocked"
    /\ Len(queue) < BufferSize
    /\ Admit(c)
    /\ qmu' = UnlockQueue(c)
    /\ Settle
    /\ UNCHANGED <<stopPc, client, fcall, store, smu, closed, stopping, wk, issued, sendCalls, canceled, retried>>

\* Enqueue blocked on a full channel: the caller's context is done (notification.go:200)
EnqueueCtxDone(c) ==
    /\ call[c].pc = "enq_blocked"
    /\ call' = Return(c, "ctx_done")
    /\ qmu' = UnlockQueue(c)
    /\ Settle
    /\ UNCHANGED <<stopPc, client, fcall, notifs, store, queue, messages, env, smu, closed, stopping,
                   wk, issued, sendCalls, canceled, retried>>

\* CancelNotification up to the status check (service.go:220-231); s.mu stays
\* locked for the writes
CancelNotification(c, n) ==
    /\ call[c].pc = "idle"
    /\ smu = 0
    /\ IF ~Exists(n)
       THEN /\ call' = [call EXCEPT ![c] = [pc |-> "idle", op |-> "cancel", n |-> n,
                                            res |-> "not_found", seen |-> StatusNone]]
            /\ UNCHANGED smu
       ELSE IF ~CancelAllowed(Lookup(n).status)
       THEN /\ call' = [call EXCEPT ![c] = [pc |-> "idle", op |-> "cancel", n |-> n,
                                            res |-> "already_sent",
                                            seen |-> Lookup(n).status]]
            /\ UNCHANGED smu
       ELSE /\ call' = [call EXCEPT ![c] = [pc |-> "cancel_write", op |-> "cancel", n |-> n,
                                            res |-> "none", seen |-> Lookup(n).status]]
            /\ smu' = c
    /\ Settle
    /\ UNCHANGED <<stopPc, client, fcall, notifs, store, queue, messages, env, qmu, closed, stopping,
                   wk, issued, sendCalls, canceled, retried>>

\* CancelNotification, the writes and the unlock (service.go:233-236)
CancelWrite(c) ==
    /\ call[c].pc = "cancel_write"
    /\ notifs' = [notifs EXCEPT ![call[c].n].status = StatusFailed,
                                ![call[c].n].lastError = ErrCancelled]
    /\ smu' = 0
    /\ canceled' = canceled \cup {call[c].n}
    /\ call' = Return(c, "ok")
    /\ Settle
    /\ UNCHANGED <<stopPc, client, fcall, store, queue, messages, env, qmu, closed, stopping, wk, issued, sendCalls, retried>>

\* RetryNotification: GetNotification and the status check (service.go:240-253)
RetryNotification(c, n) ==
    /\ call[c].pc = "idle"
    /\ smu = 0
    /\ EnvBudget > 0
    /\ IF ~Exists(n)
       THEN /\ call' = [call EXCEPT ![c] = [pc |-> "idle", op |-> "retry", n |-> n,
                                            res |-> "not_found", seen |-> StatusNone]]
            /\ UNCHANGED <<issued, retried>>
       ELSE IF ~RetryAllowed(Lookup(n).status)
       THEN /\ call' = [call EXCEPT ![c] = [pc |-> "idle", op |-> "retry", n |-> n,
                                            res |-> "already_sent",
                                            seen |-> Lookup(n).status]]
            /\ UNCHANGED <<issued, retried>>
       ELSE /\ call' = [call EXCEPT ![c] = [pc |-> "retry_reset", op |-> "retry", n |-> n,
                                            res |-> "none", seen |-> Lookup(n).status]]
            /\ issued' = issued + 1
            /\ retried' = retried \cup {n}
    /\ Settle
    /\ UNCHANGED <<stopPc, client, fcall, notifs, store, queue, messages, env, qmu, smu, closed, stopping,
                   wk, sendCalls, canceled>>

\* RetryNotification: the unlocked reset, then the Send path (service.go:256-260)
RetryReset(c) ==
    /\ call[c].pc = "retry_reset"
    /\ notifs' = [notifs EXCEPT ![call[c].n].retryCount = ResetRetryCount(@),
                                ![call[c].n].status = StatusPending]
    /\ canceled' = canceled \ {call[c].n}
    /\ call' = [call EXCEPT ![c].pc = "store"]
    /\ Settle
    /\ UNCHANGED <<stopPc, client, fcall, store, queue, messages, env, qmu, smu, closed, stopping, wk, issued, sendCalls, retried>>

\* GetNotification (service.go:181-191); the caller reads the status of the
\* notification it got.  op records whether the caller's previous call was a
\* successful send of the same notification.
GetNotification(c, n) ==
    /\ call[c].pc = "idle"
    /\ smu = 0
    /\ call' = [call EXCEPT ![c] =
                 [pc |-> "idle",
                  op |-> IF call[c].op = "send" /\ call[c].res = "ok" /\ call[c].n = n
                         THEN "get_after_send" ELSE "get",
                  n |-> n,
                  res |-> IF Exists(n) THEN "ok" ELSE "not_found",
                  seen |-> IF Exists(n) THEN Lookup(n).status ELSE StatusNone]]
    /\ Settle
    /\ UNCHANGED <<stopPc, client, fcall, notifs, store, queue, messages, env, qmu, smu, closed, stopping,
                   wk, issued, sendCalls, canceled, retried>>

\* --------------------------------------------------------- specification
Next ==
    \/ \E w \in Workers : DequeueReceive(w)
    \/ \E w \in Workers : DequeueMark(w)
    \/ \E w \in Workers : ProcessCreate(w)
    \/ \E w \in Workers : ProcessSendReturn(w)
    \/ \E w \in Workers : ProcessRetryDecision(w)
    \/ \E w \in Workers : Nack(w)
    \/ \E w \in Workers : NackAdmit(w)
    \/ \E w \in Workers : Ack(w)
    \/ \E w \in Workers : UpdateNotification(w)
    \/ \E c \in Callers, typ \in NotificationTypes, mr \in RetryValues, okf \in OkFromValues :
          Send(c, typ, mr, okf)
    \/ \E c \in Callers : StoreNotification(c)
    \/ \E c \in Callers : Enqueue(c)
    \/ \E c \in Callers : EnqueueAdmit(c)
    \/ \E c \in Callers : EnqueueCtxDone(c)
    \/ \E c \in Callers, n \in RequestIds : CancelNotification(c, n)
    \/ \E c \in Callers : CancelWrite(c)
    \/ \E c \in Callers, n \in RequestIds : RetryNotification(c, n)
    \/ \E c \in Callers : RetryReset(c)
    \/ \E c \in Callers, n \in RequestIds : GetNotification(c, n)

Spec == Init /\ [][Next]_vars

\* ------------------------------------------------------------------ Stop
\* Stop: close(s.stopChan) (service.go:49).  A worker at pc "loop" is either at
\* the head of its loop or already inside queue.Dequeue waiting for an
\* envelope; the signal reaches only the former, the latter stay in Dequeue
\* until an envelope arrives or the 5 s deadline passes.
Stop ==
    /\ stopPc = "idle"
    /\ stopping' = TRUE
    /\ stopPc' = "wait"
    /\ \E inDequeue \in SUBSET {w \in Workers : wk[w].pc = "loop"} :
          wk' = [w \in Workers |->
                    IF w \in inDequeue THEN [wk[w] EXCEPT !.pc = "dequeue"] ELSE wk[w]]
    /\ UNCHANGED <<fcall, notifs, store, queue, messages, env, qmu, smu, closed,
                   call, issued, sendCalls, canceled, retried, overlapped, client>>

\* a worker inside Dequeue when Stop signalled receives an envelope (notification.go:248)
DequeueBlockedReceive(w) ==
    /\ wk[w].pc = "dequeue"
    /\ ~closed
    /\ queue # <<>>
    /\ queue' = Tail(queue)
    /\ wk' = [wk EXCEPT ![w] = [pc |-> "deq", env |-> Head(queue), requeue |-> FALSE,
                                ok |-> FALSE,
                                stale |-> env[Head(queue)].notif \in canceled]]
    /\ Overlap
    /\ UNCHANGED <<fcall, notifs, store, messages, env, qmu, smu, closed, stopping,
                   call, issued, sendCalls, canceled, retried, stopPc, client>>

\* a worker inside Dequeue when Stop signalled runs into its deadline
\* (service.go:66-73) and is back at the head of the loop
DequeueTimeout(w) ==
    /\ wk[w].pc = "dequeue"
    /\ wk' = [wk EXCEPT ![w].pc = "loop"]
    /\ Overlap
    /\ UNCHANGED <<fcall, notifs, store, queue, messages, env, qmu, smu, closed, stopping,
                   call, issued, sendCalls, canceled, retried, stopPc, client>>

\* Stop: s.wg.Wait() returns (service.go:50)
StopWaitDone ==
    /\ stopPc = "wait"
    /\ WaitGroupDone
    /\ stopPc' = "close"
    /\ UNCHANGED <<fcall, notifs, store, queue, messages, env, qmu, smu, closed, stopping,
                   wk, call, issued, sendCalls, canceled, retried, overlapped, client>>

\* Stop: s.queue.Close() (service.go:51, notification.go:340-359); lq.closed,
\* lq.closeChan and the channel are closed under lq.mu
Close ==
    /\ stopPc = "close"
    /\ qmu = 0
    /\ closed' = TRUE
    /\ stopPc' = "done"
    /\ UNCHANGED <<fcall, notifs, store, queue, messages, env, qmu, smu, stopping,
                   wk, call, issued, sendCalls, canceled, retried, overlapped, client>>

StopNext ==
    \/ Next
    \/ Stop
    \/ \E w \in Workers : WorkerExit(w)
    \/ \E w \in Workers : DequeueBlockedReceive(w)
    \/ \E w \in Workers : DequeueTimeout(w)
    \/ StopWaitDone
    \/ Close

StopSpec == Init /\ [][StopNext]_vars


\* -------------------------------------------- the LocalQueue driven directly
\* The operations of LocalQueue (notification.go:176-359) called by client
\* goroutines, with any envelope id a client may pass.  closed stands for
\* lq.closed, lq.closeChan and, Close being one critical section, for the
\* closed channel lq.queue.
serviceVars == <<store, smu, stopping, wk, call, issued, sendCalls, canceled,
                 retried, overlapped, stopPc, fcall>>

\* the caller owns the notifications it enqueues
QueueInit ==
    /\ notifs = [n \in NotifIds |-> [NoNotif EXCEPT !.status = StatusPending]]
    /\ store = {}
    /\ queue = <<>>
    /\ messages = {}
    /\ env = [e \in EnvIds |-> NoEnv]
    /\ qmu = 0
    /\ smu = 0
    /\ closed = FALSE
    /\ stopping = FALSE
    /\ wk = [w \in Workers |-> IdleWorker]
    /\ call = [c \in Callers |-> NoCall]
    /\ issued = 0
    /\ sendCalls = [n \in NotifIds |-> 0]
    /\ canceled = {}
    /\ retried = {}
    /\ overlapped = {}
    /\ stopPc = "idle"
    /\ client = [g \in Clients |-> NoClient]
    /\ fcall = NoFcall

Done(g, op, n, e, requeue, res) ==
    [client EXCEPT ![g] = [pc |-> "idle", op |-> op, n |-> n, e |-> e,
                           requeue |-> requeue, res |-> res]]

\* Attempt of an envelope once every receive of it has been marked; receives
\* are explored up to MaxAttempt per envelope
AttemptsBegun(e) ==
    env[e].attempt + Cardinality({g \in Clients : client[g].pc = "deq_mark" /\ client[g].e = e})

\* the select case  lq.queue <- msg  of Enqueue (notification.go:192-199)
LocalQueueAdmit(g, n) ==
    /\ env' = [env EXCEPT ![FreshEnv] = [notif |-> n, attempt |-> 0]]
    /\ queue' = ChanSend(queue, FreshEnv)
    /\ messages' = messages \cup {FreshEnv}
    /\ notifs' = [notifs EXCEPT ![n].status = EnqueuedStatus]
    /\ client' = Done(g, "enqueue", n, FreshEnv, FALSE, "ok")

\* LocalQueue.Enqueue (notification.go:176-205)
LocalQueueEnqueue(g, n) ==
    /\ client[g].pc = "idle"
    /\ qmu = 0
    /\ FreshEnv \in EnvIds
    /\ IF closed
       THEN /\ client' = Done(g, "enqueue", n, 0, FALSE, "queue_closed")
            /\ UNCHANGED <<notifs, queue, messages, env, qmu>>
       ELSE IF Len(queue) < QueueCap
       THEN LocalQueueAdmit(g, n) /\ UNCHANGED qmu
       ELSE /\ qmu' = g
            /\ client' = [client EXCEPT ![g] = [pc |-> "enq_blocked", op |-> "enqueue",
                                                n |-> n, e |-> 0, requeue |-> FALSE,
                                                res |-> "none"]]
            /\ UNCHANGED <<notifs, queue, messages, env>>
    /\ UNCHANGED <<closed, serviceVars>>

\* Enqueue blocked on a full channel: room appears (notification.go:192)
LocalQueueEnqueueAdmit(g) ==
    /\ client[g].pc = "enq_blocked"
    /\ Len(queue) < QueueCap
    /\ LocalQueueAdmit(g, client[g].n)
    /\ qmu' = 0
    /\ UNCHANGED <<closed, serviceVars>>

\* Enqueue blocked on a full channel: the context is done (notification.go:200)
LocalQueueEnqueueCtxDone(g) ==
    /\ client[g].pc = "enq_blocked"
    /\ client' = Done(g, "enqueue", client[g].n, 0, FALSE, "ctx_done")
    /\ qmu' = 0
    /\ UNCHANGED <<notifs, queue, messages, env, closed, serviceVars>>

\* LocalQueue.Dequeue, the read of lq.closed without the lock (notification.go:243)
LocalQueueDequeue(g) ==
    /\ client[g].pc = "idle"
    /\ client' = [client EXCEPT ![g] =
                    [pc |-> IF closed THEN "idle" ELSE "deq_select", op |-> "dequeue",
                     n |-> 0, e |-> 0, requeue |-> FALSE,
                     res |-> IF closed THEN "queue_closed" ELSE "none"]]
    /\ UNCHANGED <<notifs, queue, messages, env, qmu, closed, serviceVars>>

\* Dequeue's select, nothing ready: the goroutine parks (notification.go:247)
LocalQueueDequeuePark(g) ==
    /\ client[g].pc = "deq_select"
    /\ ~closed
    /\ queue = <<>>
    /\ client' = [client EXCEPT ![g].pc = "deq_parked"]
    /\ UNCHANGED <<notifs, queue, messages, env, qmu, closed, serviceVars>>

\* Dequeue's select, case msg := <-lq.queue with an envelope buffered (notification.go:248)
LocalQueueDequeueReceive(g) ==
    /\ client[g].pc \in {"deq_select", "deq_parked"}
    /\ queue # <<>>
    /\ AttemptsBegun(Head(queue)) < MaxAttempt
    /\ queue' = Tail(queue)
    /\ client' = [client EXCEPT ![g].pc = "deq_mark", ![g].e = Head(queue)]
    /\ UNCHANGED <<notifs, messages, env, qmu, closed, serviceVars>>

\* Dequeue's select entered after Close, case msg := <-lq.queue: a receive
\* from the closed, empty channel yields nil at once (notification.go:248, 357).
\* A goroutine parked before Close is woken by close(lq.closeChan), which
\* comes first, and never takes this case.
LocalQueueDequeueReceiveNil(g) ==
    /\ client[g].pc = "deq_select"
    /\ closed
    /\ queue = <<>>
    /\ client' = [client EXCEPT ![g].pc = "deq_mark", ![g].e = 0]
    /\ UNCHANGED <<notifs, queue, messages, env, qmu, closed, serviceVars>>

\* Dequeue's select, case <-lq.closeChan (notification.go:256)
LocalQueueDequeueClosed(g) ==
    /\ client[g].pc \in {"deq_select", "deq_parked"}
    /\ closed
    /\ client' = Done(g, "dequeue", 0, 0, FALSE, "queue_closed")
    /\ UNCHANGED <<notifs, queue, messages, env, qmu, closed, serviceVars>>

\* Dequeue's select, case <-ctx.Done() (notification.go:254)
LocalQueueDequeueTimeout(g) ==
    /\ client[g].pc = "deq_parked"
    /\ client' = Done(g, "dequeue", 0, 0, FALSE, "timeout")
    /\ UNCHANGED <<notifs, queue, messages, env, qmu, closed, serviceVars>>

\* Dequeue under lq.mu: msg.Attempt++ and Status = processing
\* (notification.go:249-253); on a nil msg the dereference panics with the
\* lock held
LocalQueueDequeueMark(g) ==
    /\ client[g].pc = "deq_mark"
    /\ qmu = 0
    /\ LET e == client[g].e IN
       IF e = 0
       THEN /\ qmu' = g
            /\ client' = [client EXCEPT ![g].pc = "panicked", ![g].res = "panic"]
            /\ UNCHANGED <<notifs, env>>
       ELSE /\ env' = [env EXCEPT ![e].attempt = @ + 1]
            /\ notifs' = [notifs EXCEPT ![env[e].notif].status = StatusProcessing]
            /\ client' = Done(g, "dequeue", env[e].notif, e, FALSE, "ok")
            /\ UNCHANGED qmu
    /\ UNCHANGED <<queue, messages, closed, serviceVars>>

\* LocalQueue.Ack (notification.go:262-276): nil for a known and for an
\* unknown id, whether or not the queue is closed
LocalQueueAck(g, e) ==
    /\ client[g].pc = "idle"
    /\ qmu = 0
    /\ IF e \in messages
       THEN /\ notifs' = [notifs EXCEPT ![env[e].notif].status = StatusSent]
            /\ messages' = messages \ {e}
       ELSE UNCHANGED <<notifs, messages>>
    /\ client' = Done(g, "ack", 0, e, FALSE, "ok")
    /\ UNCHANGED <<queue, env, qmu, closed, serviceVars>>

\* LocalQueue.Nack (notification.go:279-311).  With requeue the status is
\* written before the select; on a closed queue the select has two ready
\* cases, the send on the closed channel (a panic, lq.mu held) and
\* <-lq.closeChan.
LocalQueueNack(g, e, requeue) ==
    /\ client[g].pc = "idle"
    /\ qmu = 0
    /\ IF ~NackKnown(e)
       THEN /\ client' = Done(g, "nack", 0, e, requeue, "unknown_envelope")
            /\ UNCHANGED <<notifs, queue, messages, qmu>>
       ELSE IF ~requeue
       THEN /\ notifs' = [notifs EXCEPT ![env[e].notif].status = StatusFailed]
            /\ messages' = messages \ {e}
            /\ client' = Done(g, "nack", 0, e, requeue, "ok")
            /\ UNCHANGED <<queue, qmu>>
       ELSE /\ notifs' = [notifs EXCEPT ![env[e].notif].status = StatusRetrying]
            /\ UNCHANGED messages
            /\ IF closed
               THEN \/ /\ client' = Done(g, "nack", 0, e, requeue, "queue_closed")
                       /\ UNCHANGED <<queue, qmu>>
                    \/ /\ client' = [client EXCEPT ![g] =
                                        [pc |-> "panicked", op |-> "nack", n |-> 0, e |-> e,
                                         requeue |-> requeue, res |-> "panic"]]
                       /\ qmu' = g
                       /\ UNCHANGED queue
               ELSE IF Len(queue) < QueueCap
               THEN /\ queue' = ChanSend(queue, e)
                    /\ client' = Done(g, "nack", 0, e, requeue, "ok")
                    /\ UNCHANGED qmu
               ELSE /\ qmu' = g
                    /\ client' = [client EXCEPT ![g] =
                                     [pc |-> "nack_blocked", op |-> "nack", n |-> 0, e |-> e,
                                      requeue |-> requeue, res |-> "none"]]
                    /\ UNCHANGED queue
    /\ UNCHANGED <<env, closed, serviceVars>>

\* Nack with requeue blocked on a full channel: room appears (notification.go:291)
LocalQueueNackAdmit(g) ==
    /\ client[g].pc = "nack_blocked"
    /\ Len(queue) < QueueCap
    /\ queue' = ChanSend(queue, client[g].e)
    /\ qmu' = 0
    /\ client' = Done(g, "nack", 0, client[g].e, TRUE, "ok")
    /\ UNCHANGED <<notifs, messages, env, closed, serviceVars>>

\* Nack with requeue blocked on a full channel: the context is done (notification.go:296)
LocalQueueNackCtxDone(g) ==
    /\ client[g].pc = "nack_blocked"
    /\ qmu' = 0
    /\ client' = Done(g, "nack", 0, client[g].e, TRUE, "ctx_done")
    /\ UNCHANGED <<notifs, queue, messages, env, closed, serviceVars>>

\* LocalQueue.Close (notification.go:340-359)
LocalQueueClose(g) ==
    /\ client[g].pc = "idle"
    /\ qmu = 0
    /\ closed' = TRUE
    /\ client' = Done(g, "close", 0, 0, FALSE, "ok")
    /\ UNCHANGED <<notifs, queue, messages, env, qmu, serviceVars>>

QueueNext ==
    \/ \E g \in Clients, n \in NotifIds : LocalQueueEnqueue(g, n)
    \/ \E g \in Clients : LocalQueueEnqueueAdmit(g)
    \/ \E g \in Clients : LocalQueueEnqueueCtxDone(g)
    \/ \E g \in Clients : LocalQueueDequeue(g)
    \/ \E g \in Clients : LocalQueueDequeuePark(g)
    \/ \E g \in Clients : LocalQueueDequeueReceive(g)
    \/ \E g \in Clients : LocalQueueDequeueReceiveNil(g)
    \/ \E g \in Clients : LocalQueueDequeueClosed(g)
    \/ \E g \in Clients : LocalQueueDequeueTimeout(g)
    \/ \E g \in Clients : LocalQueueDequeueMark(g)
    \/ \E g \in Clients, e \in EnvIds : LocalQueueAck(g, e)
    \/ \E g \in Clients, e \in EnvIds, requeue \in BOOLEAN : LocalQueueNack(g, e, requeue)
    \/ \E g \in Clients : LocalQueueNackAdmit(g)
    \/ \E g \in Clients : LocalQueueNackCtxDone(g)
    \/ \E g \in Clients : LocalQueueClose(g)

QueueSpec == QueueInit /\ [][QueueNext]_vars

\* ------------------------------------ functions of their arguments (FuncSpec)
\* everything but the record of the last call
dispatchVars == <<notifs, store, queue, messages, env, qmu, smu, closed, stopping,
                  wk, call, issued, sendCalls, canceled, retried, overlapped, stopPc, client>>

\* the number of matching notifications worth telling apart, the largest
\* offset and limit of a filter, and the longest message
MaxStoreLen == 3
MaxPage == 3
MaxMsgLen == 2

Min(a, b) == IF a < b THEN a ELSE b
Max(a, b) == IF a > b THEN a ELSE b

\* the Store as the range loop of ListNotifications walks it: the entries in
\* the order of this iteration of the map
Entries == [typ : NotificationTypes, status : {StatusPending, StatusSent}]
Snapshots == UNION {[1..k -> Entries] : k \in 0..MaxStoreLen}

\* domain.NotificationFilter: an empty set of types or statuses imposes nothing
Filters == [types : {{}, {TypeStdout}}, statuses : {{}, {StatusSent}},
            offset : 0..MaxPage, limit : 0..MaxPage]

\* service.go:307-383  matchesFilter, the type and status checks
matchesFilter(notification, filter) ==
    /\ filter.types # {} => notification.typ \in filter.types
    /\ filter.statuses # {} => notification.status \in filter.statuses

\* service.go:199-205  the matching entries, in iteration order
Matching(snapshot, filter) ==
    SelectSeq(snapshot, LAMBDA notification : matchesFilter(notification, filter))

\* service.go:208-210  results[filter.Offset:], only inside the guard
ApplyOffset(results, offset) ==
    IF offset > 0 /\ offset < Len(results)
    THEN SubSeq(results, offset + 1, Len(results))
    ELSE results

\* service.go:212-214  results[:filter.Limit], only inside the guard
ApplyLimit(results, limit) ==
    IF limit > 0 /\ limit < Len(results)
    THEN SubSeq(results, 1, limit)
    ELSE results

\* service.go:194-217
ListNotificationsResult(snapshot, filter) ==
    ApplyLimit(ApplyOffset(Matching(snapshot, filter), filter.offset), filter.limit)

ListNotifications(snapshot, filter) ==
    /\ fcall' = [fn |-> "ListNotifications",
                 matches |-> Len(Matching(snapshot, filter)),
                 offset |-> filter.offset,
                 limit |-> filter.limit,
                 result |-> ListNotificationsResult(snapshot, filter)]
    /\ UNCHANGED dispatchVars

\* the ways a notification is built before NotificationService.Send gets it
EntryPaths == {"rest", "grpc", "direct"}
DefaultMaxRetries == 3

\* rest/types.go:41-45  SendNotificationRequest.ToNotification
ToNotification(maxRetries) == IF maxRetries = 0 THEN DefaultMaxRetries ELSE maxRetries

\* grpc/handler.go:51  MaxRetries: int(req.MaxRetries)
SendNotification(maxRetries) == maxRetries

\* the MaxRetries of the notification that Send stores and enqueues;
\* Send (service.go:131-151) does not touch the field
BuiltMaxRetries(path, maxRetries) ==
    CASE path = "rest" -> ToNotification(maxRetries)
      [] path = "grpc" -> SendNotification(maxRetries)
      [] path = "direct" -> maxRetries

BuildNotification(path, maxRetries) ==
    /\ fcall' = [fn |-> "BuildNotification", path |-> path, input |-> maxRetries,
                 maxRetries |-> BuiltMaxRetries(path, maxRetries)]
    /\ UNCHANGED dispatchVars

\* the characters of a message worth telling apart
NL == "\n"
Chars == {"a", " ", NL}
Whitespace == {" ", NL}
Messages == UNION {[1..k -> Chars] : k \in 0..MaxMsgLen}

\* an output routine that adds nothing to its operand
PrintOperand(message) == message
\* fmt.Println of one string operand: the operand, then a newline
Println(message) == Append(message, NL)

\* StdoutNotifier.Send
StdoutNotifierSend(message) ==
    /\ fcall' = [fn |-> "StdoutNotifierSend", message |-> message,
                 stdout |-> Println(message), err |-> ErrNone]
    /\ UNCHANGED dispatchVars

\* Notification.Account: none, or the name of a configured account
Accounts == {"", "personal", "work"}

\* service.go:94  s.factory.Create(notification.Type): what the worker hands
\* to the factory
CreateArgument(typ, account) == typ

\* notifier.go:23-32  the factory registers and looks adapters up by the
\* notification type it is given; the adapter is named by its key
FactoryLookup(notificationType) == [typ |-> notificationType, account |-> ""]

\* processNotification, the resolution of the adapter
ResolveAdapter(typ, account) ==
    /\ fcall' = [fn |-> "ResolveAdapter", typ |-> typ, account |-> account,
                 adapter |-> FactoryLookup(CreateArgument(typ, account))]
    /\ UNCHANGED dispatchVars

\* what an adapter's Send hands back: a *NotificationResult, possibly nil,
\* and an error, possibly nil ("" stands for the nil error).  The adapters
\* return nil with the error when the context or the notification is not
\* valid, a result without success with the error when the transport fails,
\* and a result with success otherwise; a result without success and without
\* error is what the interface also allows.
NilResult == [nil |-> TRUE, success |-> FALSE, error |-> ""]
ErrSend == "send error"
AdapterReturns ==
    {[result |-> NilResult, err |-> ErrSend],
     [result |-> [nil |-> FALSE, success |-> FALSE, error |-> ErrDelivery], err |-> ErrSend],
     [result |-> [nil |-> FALSE, success |-> FALSE, error |-> ErrDelivery], err |-> ""],
     [result |-> [nil |-> FALSE, success |-> TRUE, error |-> ""], err |-> ""]}

\* service.go:105  if err != nil || !result.Success; the right operand
\* dereferences result and is evaluated only when err is nil
SendFailed(result, err) == err # "" \/ ~result.success
SendFailedPanics(result, err) == err = "" /\ result.nil

\* service.go:107-110  LastError = result.Error, then err.Error() if err != nil;
\* result.Error dereferences result
LastErrorOf(result, err) == IF err # "" THEN err ELSE result.error

\* processNotification from the return of notifier.Send to the retry rule
\* (service.go:104-111): a nil dereference is a run-time panic, which nothing
\* recovers, in the goroutine of the worker
HandleSendResult(result, err) ==
    /\ fcall' =
          IF SendFailedPanics(result, err)
          THEN [fn |-> "HandleSendResult", result |-> result, err |-> err,
                panic |-> TRUE, branch |-> "none", retryCountAdded |-> 0, lastError |-> ""]
          ELSE IF SendFailed(result, err)
          THEN [fn |-> "HandleSendResult", result |-> result, err |-> err,
                panic |-> result.nil, branch |-> "failure", retryCountAdded |-> 1,
                lastError |-> IF result.nil THEN "" ELSE LastErrorOf(result, err)]
          ELSE [fn |-> "HandleSendResult", result |-> result, err |-> err,
                panic |-> FALSE, branch |-> "success", retryCountAdded |-> 0, lastError |-> ""]
    /\ UNCHANGED dispatchVars

\* c.Notifiers.SMTP: the configured accounts of a type by name, each marked
\* default or not (config.go:32); the Slack and ntfy maps are handled by the
\* same code (config.go:226-245)
AccountNames == Accounts \ {""}
AccountConfigs == UNION {[names -> BOOLEAN] : names \in SUBSET AccountNames}

\* the orders in which a range loop can walk the names of a map: Go leaves
\* the iteration order of a map unspecified, and it may differ from one loop
\* to the next
RangeOrders(config) ==
    {order \in [1..Cardinality(DOMAIN config) -> DOMAIN config] :
        \A i, j \in DOMAIN order : order[i] = order[j] => i = j}

\* config.go:217-221  the first account marked default that the loop meets
FirstDefault(config, order) ==
    LET hits == {i \in DOMAIN order : config[order[i]]} IN
    IF hits = {} THEN ""
    ELSE order[CHOOSE i \in hits : \A j \in hits : i <= j]

\* Config.GetDefaultAccount (config.go:214-248) with the iteration orders of
\* its two range loops
GetDefaultAccountOf(typ, config, order1, order2) ==
    IF typ # TypeEmail THEN ""
    ELSE IF FirstDefault(config, order1) # "" THEN FirstDefault(config, order1)
    ELSE IF Len(order2) > 0 THEN order2[1]
    ELSE ""

\* two calls of GetDefaultAccount on one configuration
GetDefaultAccount(typ, config) ==
    /\ \E o1, o2, o3, o4 \in RangeOrders(config) :
          fcall' = [fn |-> "GetDefaultAccount", typ |-> typ, config |-> config,
                    first |-> GetDefaultAccountOf(typ, config, o1, o2),
                    second |-> GetDefaultAccountOf(typ, config, o3, o4)]
    /\ UNCHANGED dispatchVars

FuncNext ==
    \/ \E snapshot \in Snapshots, filter \in Filters : ListNotifications(snapshot, filter)
    \/ \E path \in EntryPaths, maxRetries \in 0..MaxRetriesBound :
          BuildNotification(path, maxRetries)
    \/ \E message \in Messages : StdoutNotifierSend(message)
    \/ \E typ \in NotificationTypes, account \in Accounts : ResolveAdapter(typ, account)
    \/ \E ret \in AdapterReturns : HandleSendResult(ret.result, ret.err)
    \/ \E typ \in NotificationTypes, config \in AccountConfigs : GetDefaultAccount(typ, config)

FuncSpec == Init /\ [][FuncNext]_vars

\* -------------------------------------------------- SendBatch (BatchSpec)
\* notifications a behaviour can send in batches, and the channel capacity
MaxBatch == 3
BatchCap == 2

BatchIds == 1..MaxBatch

NoBatchCall == [pc |-> "idle", op |-> "none", batch |-> <<>>, i |-> 0, res |-> "none", had |-> {}]

BatchInit ==
    /\ notifs = [n \in BatchIds |-> NoNotif]
    /\ store = {}
    /\ queue = <<>>
    /\ messages = {}
    /\ env = [e \in BatchIds |-> NoEnv]
    /\ qmu = 0
    /\ smu = 0
    /\ closed = FALSE
    /\ stopping = FALSE
    /\ wk = [w \in Workers |-> IdleWorker]
    /\ call = [c \in Callers |-> NoBatchCall]
    /\ issued = 0
    /\ sendCalls = [n \in BatchIds |-> 0]
    /\ canceled = {}
    /\ retried = {}
    /\ overlapped = {}
    /\ stopPc = "idle"
    /\ client = [g \in Clients |-> NoClient]
    /\ fcall = NoFcall

BatchCreated == {n \in DOMAIN notifs : notifs[n].status # StatusNone}
BatchAllocated == {e \in DOMAIN env : env[e].notif # 0}
BatchEnvelopesOf(n) == {e \in DOMAIN env : env[e].notif = n}

\* a range loop that walks the batch from its last element
BatchItemReversed(batch, i) == batch[Len(batch) + 1 - i]
\* notification.go:216  for _, notification := range notifications
BatchItem(batch, i) == batch[i]

\* a transport handler builds k notifications with fresh ids, for a registered
\* type and an adapter that succeeds, and calls SendBatch (service.go:154-155)
SendBatch(c, k) ==
    /\ call[c].pc = "idle"
    /\ LET first == Cardinality(BatchCreated) + 1
           ids == first..(first + k - 1)
       IN
       /\ ids \subseteq DOMAIN notifs
       /\ notifs' = [n \in DOMAIN notifs |->
                        IF n \in ids
                        THEN [status |-> StatusPending, typ |-> TypeStdout, retryCount |-> 0,
                              maxRetries |-> DefaultMaxRetries, lastError |-> ErrNone,
                              sentAt |-> FALSE, okFrom |-> 1]
                        ELSE notifs[n]]
       /\ call' = [call EXCEPT ![c] = [pc |-> "bstore", op |-> "sendBatch",
                                       batch |-> [j \in 1..k |-> first + j - 1],
                                       i |-> 1, res |-> "none", had |-> store]]
    /\ Settle
    /\ UNCHANGED <<stopPc, client, fcall, store, queue, messages, env, qmu, smu, closed, stopping,
                   wk, issued, sendCalls, canceled, retried>>

\* SendBatch: one storeNotification of the first loop (service.go:158-160)
BatchStore(c) ==
    /\ call[c].pc = "bstore"
    /\ smu = 0
    /\ store' = store \cup {call[c].batch[call[c].i]}
    /\ call' = IF call[c].i = Len(call[c].batch)
               THEN [call EXCEPT ![c].pc = "benq", ![c].i = 1]
               ELSE [call EXCEPT ![c].i = @ + 1]
    /\ Settle
    /\ UNCHANGED <<stopPc, client, fcall, notifs, queue, messages, env, qmu, smu, closed, stopping,
                   wk, issued, sendCalls, canceled, retried>>

\* EnqueueBatch: lock and the closed check (notification.go:208-214); lq.mu
\* stays locked for the whole loop
EnqueueBatch(c) ==
    /\ call[c].pc = "benq"
    /\ qmu = 0
    /\ IF closed
       THEN /\ call' = Return(c, "queue_closed")
            /\ UNCHANGED qmu
       ELSE /\ call' = [call EXCEPT ![c].pc = "bloop"]
            /\ qmu' = c
    /\ Settle
    /\ UNCHANGED <<stopPc, client, fcall, notifs, store, queue, messages, env, smu, closed, stopping,
                   wk, issued, sendCalls, canceled, retried>>

\* EnqueueBatch: the select case  lq.queue <- msg  for the next item
\* (notification.go:224-227); after the last item the call returns nil
BatchAdmit(c) ==
    /\ call[c].pc = "bloop"
    /\ Len(queue) < BatchCap
    /\ LET n == BatchItem(call[c].batch, call[c].i)
           e == Cardinality(BatchAllocated) + 1
       IN
       /\ env' = [env EXCEPT ![e] = [notif |-> n, attempt |-> 0]]
       /\ queue' = ChanSend(queue, e)
       /\ messages' = messages \cup {e}
       /\ notifs' = [notifs EXCEPT ![n].status = EnqueuedStatus]
    /\ IF call[c].i = Len(call[c].batch)
       THEN /\ call' = Return(c, "ok")
            /\ qmu' = 0
       ELSE /\ call' = [call EXCEPT ![c].i = @ + 1]
            /\ UNCHANGED qmu
    /\ Settle
    /\ UNCHANGED <<stopPc, client, fcall, store, smu, closed, stopping, wk, issued, sendCalls, canceled, retried>>

\* EnqueueBatch blocked on a full channel: the caller's context is done
\* (notification.go:228-229); SendBatch returns the error (service.go:163-165)
BatchCtxDone(c) ==
    /\ call[c].pc = "bloop"
    /\ Len(queue) >= BatchCap
    /\ call' = Return(c, "ctx_done")
    /\ qmu' = 0
    /\ Settle
    /\ UNCHANGED <<stopPc, client, fcall, notifs, store, queue, messages, env, smu, closed, stopping,
                   wk, issued, sendCalls, canceled, retried>>

BatchNext ==
    \/ \E w \in Workers : DequeueReceive(w)
    \/ \E w \in Workers : DequeueMark(w)
    \/ \E w \in Workers : ProcessCreate(w)
    \/ \E w \in Workers : ProcessSendReturn(w)
    \/ \E w \in Workers : Ack(w)
    \/ \E w \in Workers : UpdateNotification(w)
    \/ \E c \in Callers, k \in 1..MaxBatch : SendBatch(c, k)
    \/ \E c \in Callers : BatchStore(c)
    \/ \E c \in Callers : EnqueueBatch(c)
    \/ \E c \in Callers : BatchAdmit(c)
    \/ \E c \in Callers : BatchCtxDone(c)

BatchSpec == BatchInit /\ [][BatchNext]_vars

\* ------------------------------------------------------ GetStats (StatsSpec)
\* the goroutine that serves GetStats; it holds s.mu for reading, which keeps
\* out the writers of the map (storeNotification, updateNotification)
StatsReader == NumWorkers + NumCallers + 1

NotificationStatuses ==
    {StatusPending, StatusQueued, StatusProcessing, StatusSent, StatusFailed, StatusRetrying}

\* service.go:274-283  one case of the switch on notification.Status
CountIf(status, case, total) == IF status = case THEN total + 1 ELSE total

\* GetStats: RLock and the empty aggregates (service.go:264-271)
GetStats ==
    /\ IF fcall.fn = "GetStats" THEN fcall.pc = "done" ELSE TRUE
    /\ smu = 0
    /\ smu' = StatsReader
    /\ fcall' = [fn |-> "GetStats", pc |-> "switch", todo |-> store, cur |-> 0,
                 entries |-> Cardinality(store),
                 totalSent |-> 0, totalFailed |-> 0, totalPending |-> 0, totalQueued |-> 0,
                 byType |-> [t \in NotificationTypes |-> 0],
                 byStatus |-> [s \in NotificationStatuses |-> 0]]
    /\ UNCHANGED <<notifs, store, queue, messages, env, qmu, closed, stopping, wk, call,
                   issued, sendCalls, canceled, retried, overlapped, stopPc, client>>

\* GetStats: the next notification of the range loop and the switch on its
\* Status (service.go:273-283)
GetStatsSwitch(n) ==
    /\ fcall.fn = "GetStats"
    /\ fcall.pc = "switch"
    /\ n \in fcall.todo
    /\ LET status == notifs[n].status IN
       fcall' = [fcall EXCEPT !.pc = "count", !.cur = n,
                              !.totalSent = CountIf(status, StatusSent, @),
                              !.totalFailed = CountIf(status, StatusFailed, @),
                              !.totalPending = CountIf(status, StatusPending, @),
                              !.totalQueued = CountIf(status, StatusQueued, @)]
    /\ UNCHANGED dispatchVars

\* GetStats: ByType and ByStatus of the same notification, Status read again
\* (service.go:285-286)
GetStatsCount ==
    /\ fcall.fn = "GetStats"
    /\ fcall.pc = "count"
    /\ LET n == fcall.cur IN
       fcall' = [fcall EXCEPT !.pc = "switch", !.cur = 0, !.todo = @ \ {n},
                              !.byType[notifs[n].typ] = @ + 1,
                              !.byStatus[notifs[n].status] = @ + 1]
    /\ UNCHANGED dispatchVars

\* GetStats: the loop is over, RUnlock and return (service.go:289)
GetStatsReturn ==
    /\ fcall.fn = "GetStats"
    /\ fcall.pc = "switch"
    /\ fcall.todo = {}
    /\ fcall' = [fcall EXCEPT !.pc = "done"]
    /\ smu' = 0
    /\ UNCHANGED <<notifs, store, queue, messages, env, qmu, closed, stopping, wk, call,
                   issued, sendCalls, canceled, retried, overlapped, stopPc, client>>

StatsNext ==
    \/ BatchNext
    \/ GetStats
    \/ \E n \in BatchIds : GetStatsSwitch(n)
    \/ GetStatsCount
    \/ GetStatsReturn

StatsSpec == BatchInit /\ [][StatsNext]_vars

\* ------------------------- batches larger than the pool can absorb (FullSpec)
\* enough notifications to fill the channel, to occupy every worker and to
\* leave one item of a batch waiting
FullIds == 1..(BatchCap + NumWorkers + 1)

FullInit ==
    /\ notifs = [n \in FullIds |-> NoNotif]
    /\ store = {}
    /\ queue = <<>>
    /\ messages = {}
    /\ env = [e \in FullIds |-> NoEnv]
    /\ qmu = 0
    /\ smu = 0
    /\ closed = FALSE
    /\ stopping = FALSE
    /\ wk = [w \in Workers |-> IdleWorker]
    /\ call = [c \in Callers |-> NoBatchCall]
    /\ issued = 0
    /\ sendCalls = [n \in FullIds |-> 0]
    /\ canceled = {}
    /\ retried = {}
    /\ overlapped = {}
    /\ stopPc = "idle"
    /\ client = [g \in Clients |-> NoClient]
    /\ fcall = NoFcall

\* a step of the worker pool
WorkerStep ==
    \E w \in Workers :
        \/ DequeueReceive(w)
        \/ DequeueMark(w)
        \/ ProcessCreate(w)
        \/ ProcessSendReturn(w)
        \/ Ack(w)
        \/ UpdateNotification(w)

FullNext ==
    \/ WorkerStep
    \/ \E c \in Callers, k \in FullIds : SendBatch(c, k)
    \/ \E c \in Callers : BatchStore(c)
    \/ \E c \in Callers : EnqueueBatch(c)
    \/ \E c \in Callers : BatchAdmit(c)
    \/ \E c \in Callers : BatchCtxDone(c)

FullSpec == FullInit /\ [][FullNext]_vars

\* ------------------------------------- the service with Purge (PurgeSpec)
\* LocalQueue.Purge (notification.go:321-337) called by a goroutine of its
\* own while the service sends and delivers.  lq.mu is held from the first line to the
\* return; the receive in Dequeue takes no lock, so the channel can lose an
\* envelope between len(lq.queue) > 0 and <-lq.queue.

\* Purge: lq.mu.Lock() (notification.go:322)
LocalQueuePurge(g) ==
    /\ client[g].pc = "idle"
    /\ qmu = 0
    /\ qmu' = g + NumWorkers + NumCallers
    /\ client' = [client EXCEPT ![g] = [pc |-> "purge_len", op |-> "purge", n |-> 0, e |-> 0,
                                        requeue |-> FALSE, res |-> "none"]]
    /\ UNCHANGED <<notifs, queue, messages, env, closed, serviceVars>>

\* Purge: the loop condition len(lq.queue) > 0 (notification.go:326); when it
\* is false, lq.messages becomes a new empty map and lq.mu is released
\* (notification.go:330-336)
LocalQueuePurgeLen(g) ==
    /\ client[g].pc = "purge_len"
    /\ IF Len(queue) > 0
       THEN /\ client' = [client EXCEPT ![g].pc = "purge_recv"]
            /\ UNCHANGED <<messages, qmu>>
       ELSE /\ messages' = {}
            /\ qmu' = 0
            /\ client' = Done(g, "purge", 0, 0, FALSE, "ok")
    /\ UNCHANGED <<notifs, queue, env, closed, serviceVars>>

\* Purge: <-lq.queue (notification.go:327), which waits when a Dequeue has
\* taken the envelope in the meantime
LocalQueuePurgeReceive(g) ==
    /\ client[g].pc = "purge_recv"
    /\ queue # <<>>
    /\ queue' = Tail(queue)
    /\ client' = [client EXCEPT ![g].pc = "purge_len"]
    /\ UNCHANGED <<notifs, messages, env, qmu, closed, serviceVars>>

PurgeNext ==
    \/ \E w \in Workers : DequeueReceive(w)
    \/ \E w \in Workers : DequeueMark(w)
    \/ \E w \in Workers : ProcessCreate(w)
    \/ \E w \in Workers : ProcessSendReturn(w)
    \/ \E w \in Workers : ProcessRetryDecision(w)
    \/ \E w \in Workers : Nack(w)
    \/ \E w \in Workers : NackAdmit(w)
    \/ \E w \in Workers : Ack(w)
    \/ \E w \in Workers : UpdateNotification(w)
    \/ \E c \in Callers, typ \in NotificationTypes, mr \in RetryValues, okf \in OkFromValues :
          Send(c, typ, mr, okf)
    \/ \E c \in Callers : StoreNotification(c)
    \/ \E c \in Callers : Enqueue(c)
    \/ \E c \in Callers : EnqueueAdmit(c)
    \/ \E c \in Callers : EnqueueCtxDone(c)
    \/ \E c \in Callers, n \in RequestIds : RetryNotification(c, n)
    \/ \E c \in Callers : RetryReset(c)
    \/ \E g \in Clients : LocalQueuePurge(g)
    \/ \E g \in Clients : LocalQueuePurgeLen(g)
    \/ \E g \in Clients : LocalQueuePurgeReceive(g)

PurgeSpec == Init /\ [][PurgeNext]_vars


\* ================================================================ claims

\* n went through Send only: no cancel and no retry was ever issued on it
Untouched(n) == n \notin canceled /\ n \notin retried

\* n was admitted and no envelope of it is buffered or held by a worker
Drained(n) == EnvelopesOf(n) # {} /\ LiveEnvelopesOf(n) = {}

\* C1: a worker that dequeues the envelope of a notification canceled before
\* the dequeue does not invoke the adapter for it: it goes straight to the ack,
\* and the notification stays failed (as long as no retry re-opens it).
C1_CanceledNeverDelivered ==
    \A w \in Workers :
        wk[w].stale =>
            /\ wk[w].pc \in {"deq", "got", "ack", "update"}
            /\ NotifOf(w) \in canceled => notifs[NotifOf(w)].status = StatusFailed

\* C2: at no moment are two workers inside the adapter's Send for the same
\* notification.
C2_OneSenderPerNotification ==
    \A w1, w2 \in Workers :
        (w1 # w2 /\ wk[w1].pc = "sending" /\ wk[w2].pc = "sending")
            => NotifOf(w1) # NotifOf(w2)

\* C3: a notification whose adapter fails on every attempt, never canceled or
\* retried, ends failed with retryCount = maxRetries once no envelope of it is
\* buffered or in flight, for every maxRetries including 0.
C3_AlwaysFailingEndsAtMaxRetries ==
    \A n \in store :
        (/\ FactoryCreate(notifs[n].typ)
         /\ notifs[n].okFrom = 0
         /\ Untouched(n)
         /\ Drained(n))
            => /\ notifs[n].status = StatusFailed
               /\ notifs[n].retryCount = notifs[n].maxRetries

\* C4: a notification whose adapter fails on attempts 1..k-1 and succeeds on
\* attempt k, 1 <= k <= maxRetries + 1, gets its k-th attempt and ends sent
\* with retryCount = k - 1.
C4_SucceedsOnKthAttempt ==
    \A n \in store :
        (/\ FactoryCreate(notifs[n].typ)
         /\ notifs[n].okFrom \in 1..(notifs[n].maxRetries + 1)
         /\ Untouched(n)
         /\ Drained(n))
            => /\ sendCalls[n] = notifs[n].okFrom
               /\ notifs[n].status = StatusSent
               /\ notifs[n].retryCount = notifs[n].okFrom - 1

\* C5: every stored notification whose status is queued, processing or
\* retrying has retryCount <= maxRetries.
C5_RetryCountBounded ==
    \A n \in store :
        notifs[n].status \in {StatusQueued, StatusProcessing, StatusRetrying}
            => notifs[n].retryCount <= notifs[n].maxRetries

\* C6 as stated: a get issued right after a successful send of the same
\* notification observes pending or queued, never anything else.
C6_GetAfterSendPendingOrQueued ==
    \A c \in Callers :
        call[c].op = "get_after_send" /\ call[c].res = "ok"
            => call[c].seen \in {StatusPending, StatusQueued}

\* no worker has completed a dequeue of an envelope of n, and no cancel of n
\* has succeeded
Undelivered(n) ==
    /\ n \notin canceled
    /\ \A e \in EnvelopesOf(n) : env[e].attempt = 0

\* C6 as amended: a get issued right after a successful send observes pending
\* or queued provided that no worker has yet dequeued the notification's
\* envelope and no cancel of it has succeeded.
C6_GetAfterSendBeforeDequeue ==
    [][\A c \in Callers :
          (/\ call[c].pc = "idle" /\ call[c].op = "send" /\ call[c].res = "ok"
           /\ call'[c].op = "get_after_send"
           /\ Undelivered(call[c].n))
              => call'[c].seen \in {StatusPending, StatusQueued}]_vars

\* C6 witness: a get right after a successful send, with the envelope still
\* buffered and never dequeued, answered queued
C6_Witness ==
    \E c \in Callers :
        /\ call[c].op = "get_after_send"
        /\ call[c].seen = StatusQueued
        /\ Undelivered(call[c].n)
        /\ queue # <<>>

\* C7: once a notification is sent its status never changes again and the
\* adapter is never invoked for it again.
C7_SentAbsorbing ==
    [][\A n \in NotifIds :
          notifs[n].status = StatusSent
              => /\ notifs'[n].status = StatusSent
                 /\ sendCalls'[n] = sendCalls[n]]_vars

\* C8: a failed notification on which no retry was ever started stays failed,
\* whatever envelopes of it are still buffered or in flight.
C8_FailedTerminalUnlessRetry ==
    [][\A n \in NotifIds :
          (notifs[n].status = StatusFailed /\ n \notin retried')
              => notifs'[n].status = StatusFailed]_vars

\* C9: a cancel that found the notification already failed returns ok and
\* leaves lastError as it was.
C9_CancelFailedKeepsLastError ==
    [][\A c \in Callers :
          (/\ call[c].pc = "cancel_write"
           /\ call[c].seen = StatusFailed
           /\ call'[c].pc = "idle")
              => /\ call'[c].res = "ok"
                 /\ notifs'[call[c].n].lastError = notifs[call[c].n].lastError]_vars

\* C10: a cancel of a notification whose status is sent returns the
\* already-sent error and changes neither status, lastError nor retryCount
\* (nothing of any notification), and does not keep the Store lock.
C10_CancelSentRejected ==
    [][\A c \in Callers, n \in store :
          (/\ call[c].pc = "idle"
           /\ notifs[n].status = StatusSent
           /\ call'[c] # call[c]
           /\ call'[c].op = "cancel"
           /\ call'[c].n = n)
              => /\ call'[c].pc = "idle"
                 /\ call'[c].res = "already_sent"
                 /\ notifs' = notifs
                 /\ smu' = 0]_vars

\* C10 witness: a cancel has just been refused on a sent notification
C10_Witness ==
    \E c \in Callers :
        /\ call[c].pc = "idle"
        /\ call[c].op = "cancel"
        /\ call[c].res = "already_sent"
        /\ call[c].n \in store
        /\ notifs[call[c].n].status = StatusSent
        /\ notifs[call[c].n].sentAt

\* C11: a retry on a stored notification that is not sent resets retryCount to
\* 0 and status to pending and runs the send path; when it returns success
\* with no worker step since the call began, the notification has retryCount 0
\* and status queued, the Store holds it, and exactly one new envelope of it
\* was admitted at the back of the buffer.
C11_RetryResetsAndRequeues ==
    [][\A c \in Callers :
          /\ (call[c].pc = "retry_reset" /\ call'[c] # call[c])
                => /\ notifs'[call[c].n].retryCount = 0
                   /\ notifs'[call[c].n].status = StatusPending
                   /\ call'[c].pc = "store"
          /\ (/\ call[c].op = "retry" /\ call[c].pc \in {"enq", "enq_blocked"}
              /\ call'[c].pc = "idle" /\ call'[c].res = "ok"
              /\ c \notin overlapped)
                => /\ notifs'[call[c].n].retryCount = 0
                   /\ notifs'[call[c].n].status = StatusQueued
                   /\ call[c].n \in store'
                   /\ \E e \in EnvIds :
                         /\ env[e].notif = 0
                         /\ env' = [env EXCEPT ![e] = [notif |-> call[c].n, attempt |-> 0]]
                         /\ queue' = Append(queue, e)
                         /\ messages' = messages \cup {e}]_vars

\* C11 witness: a retry of a failed notification has returned success and the
\* workers are idle: retryCount 0, status queued, a second envelope buffered
C11_Witness ==
    \E c \in Callers :
        /\ call[c].pc = "idle" /\ call[c].op = "retry" /\ call[c].res = "ok"
        /\ call[c].seen = StatusFailed
        /\ notifs[call[c].n].retryCount = 0
        /\ notifs[call[c].n].status = StatusQueued
        /\ Cardinality(EnvelopesOf(call[c].n)) = 2
        /\ Len(queue) = 1
        /\ \A w \in Workers : wk[w].pc = "loop"

\* C12: no envelope is ever admitted for a notification whose channel type has
\* no registered adapter; the send is refused instead.
C12_UnresolvableNeverQueued ==
    \A e \in Allocated : FactoryCreate(notifs[env[e].notif].typ)

\* C13: a send (or retry) whose enqueue failed before admission, by a done
\* caller context or a closed queue, leaves no Store entry for the notification.
C13_FailedEnqueueLeavesNoEntry ==
    \A c \in Callers :
        (/\ call[c].pc = "idle"
         /\ call[c].op = "send"
         /\ call[c].res \in {"ctx_done", "queue_closed"})
            => call[c].n \notin store

\* C14: on a closed queue every enqueue, dequeue, ack and nack fails with the
\* queue-closed error and changes neither the buffer, the bookkeeping map nor
\* a notification status.
C14_ClosedQueueRejectsAll ==
    [][\A g \in Clients :
          (/\ closed
           /\ client[g].pc = "idle"
           /\ client'[g] # client[g]
           /\ client'[g].op \in {"enqueue", "dequeue", "ack", "nack"})
              => /\ client'[g].pc = "idle"
                 /\ client'[g].res = "queue_closed"
                 /\ queue' = queue
                 /\ messages' = messages
                 /\ notifs' = notifs]_vars

\* C15: a nack for an envelope id that is not in the bookkeeping map returns
\* the unknown-envelope error, with requeue and without, and changes neither
\* the buffer, the map, an envelope nor a notification, and keeps no lock.
C15_NackUnknownEnvelope ==
    [][\A g \in Clients :
          (/\ client[g].pc = "idle"
           /\ client'[g] # client[g]
           /\ client'[g].op = "nack"
           /\ client'[g].e \notin messages)
              => /\ client'[g].pc = "idle"
                 /\ client'[g].res = "unknown_envelope"
                 /\ queue' = queue
                 /\ messages' = messages
                 /\ notifs' = notifs
                 /\ env' = env
                 /\ qmu' = qmu]_vars

\* C15 witness: a nack with requeue was refused for an envelope id that had
\* been issued and then acked
C15_Witness ==
    \E g \in Clients :
        /\ client[g].pc = "idle"
        /\ client[g].op = "nack"
        /\ client[g].requeue
        /\ client[g].res = "unknown_envelope"
        /\ env[client[g].e].notif # 0
        /\ client[g].e \notin messages
        /\ notifs[env[client[g].e].notif].status = StatusSent

\* C16: a dequeue call ends with an envelope whose attempt was incremented by
\* exactly 1 and whose notification is processing, or with a timeout, or with
\* the queue-closed error, and in no other way.
C16_DequeueOutcomes ==
    [][\A g \in Clients :
          (/\ client'[g] # client[g]
           /\ client'[g].op = "dequeue"
           /\ client'[g].pc \notin {"deq_select", "deq_parked", "deq_mark"})
              => \/ client'[g].res \in {"timeout", "queue_closed"}
                 \/ /\ client'[g].res = "ok"
                    /\ client'[g].e \in EnvIds
                    /\ env'[client'[g].e].attempt = env[client'[g].e].attempt + 1
                    /\ notifs'[env[client'[g].e].notif].status = StatusProcessing]_vars

\* C20: the buffer is first in, first out: an admission, first-time or by
\* nack with requeue, goes behind everything buffered, and a dequeue takes the
\* oldest buffered envelope.
C20_BufferIsFifo ==
    [][\/ queue' = queue
       \/ \E e \in EnvIds : queue' = Append(queue, e)
       \/ /\ queue # <<>>
          /\ queue' = Tail(queue)
          /\ \E g \in Clients :
                /\ client[g].pc # "deq_mark"
                /\ client'[g].pc = "deq_mark"
                /\ client'[g].e = Head(queue)]_vars

\* C20 witness: an envelope dequeued and nacked with requeue sits behind an
\* envelope that was admitted after it and is still waiting
C20_Witness ==
    /\ Len(queue) = 2
    /\ queue[1] # queue[2]
    /\ queue[1] > queue[2]
    /\ env[queue[1]].attempt = 0
    /\ env[queue[2]].attempt > 0
    /\ \E g \in Clients :
          /\ client[g].op = "nack" /\ client[g].requeue /\ client[g].res = "ok"
          /\ client[g].e = queue[2]

\* C17: the queue is closed by Stop only after every worker has left its loop:
\* once the queue is closed no worker is dequeuing, inside the adapter's Send,
\* acking, nacking or updating the Store.
C17_CloseAfterWorkersExit ==
    closed => \A w \in Workers : wk[w].pc = "exited"

\* C17 witness: Stop has closed the queue after the workers delivered something
C17_Witness ==
    /\ closed
    /\ stopPc = "done"
    /\ \A w \in Workers : wk[w].pc = "exited"
    /\ \E n \in store : sendCalls[n] > 0 /\ notifs[n].status = StatusSent

\* C18: once Stop has signalled the workers, every enqueue attempt of a send
\* fails with the queue-closed error and admits no envelope.
C18_SendDuringShutdownFails ==
    [][\A c \in Callers :
          (stopping /\ call[c].pc = "enq" /\ call'[c] # call[c])
              => /\ call'[c].pc = "idle"
                 /\ call'[c].res = "queue_closed"
                 /\ queue' = queue
                 /\ messages' = messages]_vars

\* C19: when Stop has returned the buffer is empty and no stored notification
\* is left queued, processing or retrying.
C19_StopDrainsQueue ==
    stopPc = "done"
        => /\ queue = <<>>
           /\ \A n \in store :
                 notifs[n].status \notin {StatusQueued, StatusProcessing, StatusRetrying}

\* C21: only enqueue and dequeue suspend on the capacity of the buffer: no
\* worker is ever suspended inside nack, holding the queue lock, until another
\* party takes an envelope out of a full buffer.
C21_OnlyEnqueueDequeueSuspend ==
    \A w \in Workers : ~(wk[w].pc = "nack_blocked" /\ qmu = w)

\* C25: get, cancel and retry of an id that was never stored return the
\* not-found error in one step and leave the Store, the notifications, the
\* buffer and the in-flight map as they were.
C25_UnknownIdNotFound ==
    [][\A c \in Callers :
          (/\ call[c].pc = "idle"
           /\ call'[c] # call[c]
           /\ call'[c].op \in {"get", "get_after_send", "cancel", "retry"}
           /\ call'[c].n \notin store)
              => /\ call'[c].pc = "idle"
                 /\ call'[c].res = "not_found"
                 /\ store' = store
                 /\ notifs' = notifs
                 /\ queue' = queue
                 /\ messages' = messages
                 /\ env' = env]_vars

\* C25 witness: retry of an id that was never stored returned not-found while
\* another notification is stored and its envelope is being delivered
C25_Witness ==
    \E c \in Callers :
        /\ call[c].pc = "idle"
        /\ call[c].op = "retry"
        /\ call[c].res = "not_found"
        /\ call[c].n \notin store
        /\ store # {}
        /\ messages # {}

\* C22: enqueueBatch is all-or-nothing: when a sendBatch has failed, no
\* notification of its batch has an envelope or has left status pending.
C22_BatchAllOrNothing ==
    \A c \in Callers :
        (call[c].op = "sendBatch" /\ call[c].pc = "idle" /\ call[c].res # "ok")
            => \A i \in 1..Len(call[c].batch) :
                  /\ BatchEnvelopesOf(call[c].batch[i]) = {}
                  /\ notifs[call[c].batch[i]].status = StatusPending

\* C23: when a sendBatch of N notifications returns success and no worker has
\* stepped since the call began, the N ids are N distinct Store entries that
\* were not there when the call began, each
\* notification is queued and has exactly one envelope, and these envelopes
\* are the last N of the buffer, in batch order.
C23_BatchStoredQueuedInOrder ==
    [][\A c \in Callers :
          (/\ call[c].op = "sendBatch"
           /\ call[c].pc # "idle"
           /\ call'[c].pc = "idle"
           /\ call'[c].res = "ok"
           /\ c \notin overlapped)
              => LET batch == call[c].batch
                     N == Len(batch)
                     ids == {batch[i] : i \in 1..N}
                 IN
                 /\ Cardinality(ids) = N
                 /\ ids \subseteq store'
                 /\ ids \cap call[c].had = {}
                 /\ Len(queue') >= N
                 /\ \A i \in 1..N :
                       /\ notifs'[batch[i]].status = StatusQueued
                       /\ Cardinality({e \in DOMAIN env' : env'[e].notif = batch[i]}) = 1
                       /\ env'[queue'[Len(queue') - N + i]].notif = batch[i]]_vars

\* C23 witness: a sendBatch of two notifications has returned success and
\* both envelopes wait in the buffer in batch order, untouched by the workers
C23_Witness ==
    \E c \in Callers :
        /\ call[c].op = "sendBatch"
        /\ call[c].pc = "idle"
        /\ call[c].res = "ok"
        /\ c \notin overlapped
        /\ Len(call[c].batch) = 2
        /\ Len(queue) = 2
        /\ \A i \in 1..2 :
              /\ env[queue[i]].notif = call[c].batch[i]
              /\ notifs[call[c].batch[i]].status = StatusQueued
              /\ call[c].batch[i] \in store

\* C24: the adapter is selected by the pair (type, account): a notification
\* with a non-empty account A is resolved to the adapter registered under
\* (type, A).
C24_AdapterByTypeAndAccount ==
    (fcall.fn = "ResolveAdapter" /\ fcall.account # "")
        => fcall.adapter = [typ |-> fcall.typ, account |-> fcall.account]

RECURSIVE SumOver(_, _)
SumOver(f, S) ==
    IF S = {} THEN 0
    ELSE LET x == CHOOSE y \in S : TRUE IN f[x] + SumOver(f, S \ {x})

\* C26: the statistics a getStats call returns have totalSent, totalFailed,
\* totalPending and totalQueued equal to the by-status counts of sent, failed,
\* pending and queued, and the by-status counts and the by-type counts both
\* add up to the number of Store entries.
C26_StatsAggregatesAgree ==
    (fcall.fn = "GetStats" /\ fcall.pc = "done")
        => /\ fcall.totalSent = fcall.byStatus[StatusSent]
           /\ fcall.totalFailed = fcall.byStatus[StatusFailed]
           /\ fcall.totalPending = fcall.byStatus[StatusPending]
           /\ fcall.totalQueued = fcall.byStatus[StatusQueued]
           /\ SumOver(fcall.byStatus, NotificationStatuses) = fcall.entries
           /\ SumOver(fcall.byType, NotificationTypes) = fcall.entries

\* the by-status counts of the Store as it is now
StoreByStatus ==
    [s \in NotificationStatuses |-> Cardinality({n \in store : notifs[n].status = s})]

\* the by-status counts a Store of at most MaxBatch entries can have
CountVectors ==
    {r \in [NotificationStatuses -> 0..MaxBatch] : SumOver(r, NotificationStatuses) <= MaxBatch}

\* a GetStats call has taken the read lock and has read nothing yet
StatsBegun ==
    /\ fcall.fn = "GetStats"
    /\ fcall.pc = "switch"
    /\ fcall.todo = store
    /\ SumOver(fcall.byStatus, NotificationStatuses) = 0

\* StatsSpec with a GetStats call that, once begun, runs to its return
StatsLiveSpec ==
    /\ StatsSpec
    /\ WF_vars(\E n \in BatchIds : GetStatsSwitch(n))
    /\ WF_vars(GetStatsCount)
    /\ WF_vars(GetStatsReturn)

\* C31: the by-status counts a getStats call returns are the counts of the
\* Store at one instant of the call: for every count vector r, a call that has
\* begun either returns something else than r or passes an instant at which
\* the Store's counts are r.
C31_StatsEpochConsistent ==
    \A r \in CountVectors :
        StatsBegun ~> \/ StoreByStatus = r
                      \/ fcall.fn = "GetStats" /\ fcall.pc = "done" /\ fcall.byStatus # r

\* C27: list returns the matches with the first offset of them skipped and at
\* most limit of the rest kept (limit 0: no limit), so its length is
\* min(limit, max(0, matches - offset)).
C27_ListLengthByOffsetAndLimit ==
    fcall.fn = "ListNotifications"
        => Len(fcall.result) =
              IF fcall.limit = 0
              THEN Max(0, fcall.matches - fcall.offset)
              ELSE Min(fcall.limit, Max(0, fcall.matches - fcall.offset))

\* C28: whichever path built it, the notification that send admits carries
\* maxRetries >= 1: an input of 0 became 3 and a positive input was kept.
C28_MaxRetriesDefaultsToThree ==
    fcall.fn = "BuildNotification"
        => /\ fcall.maxRetries >= 1
           /\ fcall.input = 0 => fcall.maxRetries = 3
           /\ fcall.input > 0 => fcall.maxRetries = fcall.input

\* C29: StdoutNotifier.Send returns no error and writes the message followed
\* by one newline; for an empty message the output is nothing but whitespace.
C29_StdoutWritesMessageAndNewline ==
    fcall.fn = "StdoutNotifierSend"
        => /\ fcall.err = ErrNone
           /\ fcall.stdout = fcall.message \o <<NL>>
           /\ fcall.message = <<>>
                 => /\ fcall.stdout = <<NL>>
                    /\ \A i \in DOMAIN fcall.stdout : fcall.stdout[i] \in Whitespace

\* C29 witness: Send was called with an empty message and wrote one newline
C29_Witness ==
    /\ fcall.fn = "StdoutNotifierSend"
    /\ fcall.message = <<>>
    /\ fcall.stdout = <<NL>>
    /\ fcall.err = ErrNone

\* C33: no deadlock on a full buffer: whenever a producer is inside
\* EnqueueBatch with an item still to admit, either the item can be admitted
\* or some worker can take a step.
C33_NoDeadlockOnFullBuffer ==
    (\E c \in Callers : call[c].pc = "bloop")
        => ENABLED (WorkerStep \/ \E c \in Callers : BatchAdmit(c))

\* FullSpec with a worker pool that keeps running and adapters that return:
\* a worker step that stays possible is taken, and so is an admission for
\* which the channel has room
FullLiveSpec ==
    /\ FullSpec
    /\ WF_vars(WorkerStep)
    /\ WF_vars(\E c \in Callers : BatchAdmit(c))

\* C34: every notification admitted to the queue eventually reaches status
\* sent or failed.
C34_AdmittedEventuallyTerminal ==
    \A n \in FullIds :
        (n \in store /\ notifs[n].status = StatusQueued)
            ~> notifs[n].status \in {StatusSent, StatusFailed}

\* StopSpec with workers that keep running until they exit, adapters that
\* return, calls under way that go on whenever they can (the cancellation of
\* a caller's context is not forced), and a Stop that goes on whenever it can
StopLiveSpec ==
    /\ StopSpec
    /\ \A w \in Workers :
          /\ WF_vars(DequeueMark(w))
          /\ WF_vars(ProcessCreate(w))
          /\ WF_vars(ProcessSendReturn(w))
          /\ WF_vars(ProcessRetryDecision(w))
          /\ WF_vars(Nack(w))
          /\ WF_vars(NackAdmit(w))
          /\ WF_vars(Ack(w))
          /\ WF_vars(UpdateNotification(w))
          /\ WF_vars(WorkerExit(w))
          /\ WF_vars(DequeueTimeout(w))
    /\ \A c \in Callers :
          /\ WF_vars(StoreNotification(c))
          /\ WF_vars(Enqueue(c))
          /\ WF_vars(EnqueueAdmit(c))
          /\ WF_vars(CancelWrite(c))
          /\ WF_vars(RetryReset(c))
    /\ WF_vars(StopWaitDone)
    /\ WF_vars(Close)

\* C35: Stop terminates: once Stop has been called it eventually returns,
\* with every worker out of its loop and the queue closed.
C35_StopTerminates ==
    (stopPc # "idle")
        ~> (stopPc = "done" /\ closed /\ \A w \in Workers : wk[w].pc = "exited")

\* C36: a failed delivery never takes the worker down: whatever the adapter
\* hands back, the worker does not panic, and for an error (with or without
\* a result) or a result without success it counts the attempt and records
\* a last error.
C36_FailedDeliveryKeepsWorker ==
    fcall.fn = "HandleSendResult"
        => /\ ~fcall.panic
           /\ (fcall.err # "" \/ fcall.result.nil \/ ~fcall.result.success)
                 => /\ fcall.branch = "failure"
                    /\ fcall.retryCountAdded = 1
                    /\ fcall.lastError # ""

\* C37: for a notification never passed to retry, the adapter's Send is
\* invoked at most max(1, maxRetries) times; every invocation is made by the
\* worker that has just dequeued the one envelope of the notification, once
\* per dequeue; and the envelope's attempt counter counts the dequeues: it
\* starts at 0, every dequeue adds one and nothing else changes it.
C37_AttemptsBounded ==
    [][/\ \A n \in NotifIds :
            n \notin retried' =>
                /\ sendCalls'[n] <= Max(1, notifs'[n].maxRetries)
                /\ Cardinality({e \in EnvIds : env'[e].notif = n}) <= 1
                /\ \A e \in EnvIds : env'[e].notif = n => sendCalls'[n] <= env'[e].attempt
       /\ \A n \in NotifIds :
            sendCalls'[n] # sendCalls[n] =>
                /\ sendCalls'[n] = sendCalls[n] + 1
                /\ \E w \in Workers :
                      /\ wk[w].pc = "got" /\ wk'[w].pc = "sending"
                      /\ env[wk[w].env].notif = n
       /\ \A w \in Workers :
            wk'[w].pc = "got" /\ wk[w].pc # "got" => wk[w].pc = "deq"
       /\ \A e \in EnvIds :
            /\ (env[e].notif = 0 /\ env'[e].notif # 0) => env'[e].attempt = 0
            /\ (\E w \in Workers : wk[w].pc = "deq" /\ wk'[w].pc = "got" /\ wk[w].env = e)
                  => env'[e].attempt = env[e].attempt + 1
            /\ (env[e].notif # 0 /\ env'[e].attempt # env[e].attempt)
                  => \E w \in Workers : wk[w].pc = "deq" /\ wk'[w].pc = "got" /\ wk[w].env = e
      ]_vars

\* a notification never canceled or retried has used up its two attempts
C37_Witness ==
    \E n \in store :
        /\ Untouched(n)
        /\ notifs[n].maxRetries = 2
        /\ sendCalls[n] = 2
        /\ notifs[n].status = StatusFailed
        /\ \E e \in EnvIds : env[e].notif = n /\ env[e].attempt = 2

\* envelopes in the channel, and envelopes a worker holds between the return
\* of Dequeue and its call of Ack or Nack
Buffered == {queue[i] : i \in 1..Len(queue)}
InFlight ==
    {e \in EnvIds :
        \E w \in Workers :
            wk[w].env = e /\ wk[w].pc \in {"got", "sending", "decide", "nack", "ack"}}
\* no goroutine is inside an operation of the queue
QueueAtRest ==
    /\ qmu = 0
    /\ \A w \in Workers : wk[w].pc # "deq"
    /\ \A g \in Clients : client[g].pc = "idle"

\* C38: whenever no queue operation is in progress, the envelope ids in
\* lq.messages are exactly the envelopes buffered in the channel or dequeued
\* and not yet acked or nacked, after any sequence of operations including
\* Purge; no envelope in flight is missing from the map.
C38_BookkeepingExact ==
    QueueAtRest => messages = Buffered \cup InFlight

\* envelope e is in channel q or held by one of the workers ws
LiveIn(e, q, ws) ==
    \/ \E i \in 1..Len(q) : q[i] = e
    \/ \E w \in Workers : ws[w].env = e /\ ws[w].pc # "loop"

C40_DefaultAccountDeterministic ==
    (fcall.fn = "GetDefaultAccount" /\ fcall.typ = TypeEmail) =>
        /\ fcall.first = fcall.second
        /\ (\E name \in DOMAIN fcall.config : fcall.config[name]) =>
                (fcall.first \in DOMAIN fcall.config /\ fcall.config[fcall.first])
        /\ DOMAIN fcall.config # {} => fcall.first \in DOMAIN fcall.config
        /\ DOMAIN fcall.config = {} => fcall.first = ""

\* C30: every write to the status or the retry count of a stored notification
\* happens while the Store's lock is held.
C30_WritesUnderStoreLock ==
    [][\A n \in store :
          (\/ notifs'[n].status # notifs[n].status
           \/ notifs'[n].retryCount # notifs[n].retryCount) => smu # 0]_vars

====
